---- MODULE Spec2Model ----
(***************************************************************************)
(* Model of the two example programs of the repository:                    *)
(*   graph_config_example.py    the fluent GraphConfigBuilder and its two   *)
(*                              factory functions                          *)
(*   enhanced_agent_example.py  create_enhanced_config and                  *)
(*                              integrate_with_graph_db                    *)
(* Python objects live in a heap of cells addressed by their index, so     *)
(* that aliasing (which references denote the same mutable object) is part *)
(* of the state.  The two programs are separate processes: a behaviour     *)
(* runs one of them.                                                       *)
(***************************************************************************)
EXTENDS Integers, Sequences, FiniteSets, TLC

VARIABLES
    prog,       \* which of the two scripts this behaviour runs
    heap,       \* sequence of cells; the address of a cell is its index
    builders,   \* addresses of the GraphConfigBuilder objects the client holds
    handed,     \* every record a call has returned to the client so far
    out,        \* the outcome of the most recent call
    prev,       \* the outcome of the call before it
    lastSet,    \* per builder and key: the setter call that last wrote the key
    calls       \* number of calls made so far

vars == <<prog, heap, builders, handed, out, prev, lastSet, calls>>

\* ------------------------------------------------------------------ bounds
MaxCalls == 4
MaxBuilders == 2

\* ------------------------------------------------------------------ values
\* Immutable values and references share one shape.
Str(s) == [tag |-> "str", s |-> s, n |-> 0]
Num(i) == [tag |-> "int", s |-> "", n |-> i]
Fn(name) == [tag |-> "lambda", s |-> name, n |-> 0]
Ref(a) == [tag |-> "ref", s |-> "", n |-> a]
None == [tag |-> "none", s |-> "", n |-> 0]

EmptyMap == [k \in {} |-> None]

\* Heap cells: a dict, a list, or an object with attributes.
Dict(d) == [kind |-> "dict", d |-> d, l |-> <<>>]
List(l) == [kind |-> "list", d |-> EmptyMap, l |-> l]
Obj(class, attrs) == [kind |-> class, d |-> attrs, l |-> <<>>]

Alloc(h, cell) == [heap |-> Append(h, cell), ref |-> Ref(Len(h) + 1)]

\* d[k] = v on the dict at address a
SetItem(h, a, k, v) == [h EXCEPT ![a].d = (k :> v) @@ h[a].d]

\* What a call produces: the heap after it, and a returned value or an exception.
Res(h, ret, raised) == [heap |-> h, ret |-> ret, raised |-> raised]

\* The value a reference denotes, as a tree without addresses (structural equality).
RECURSIVE Deref(_, _)
Deref(h, v) ==
    IF v.tag # "ref" THEN v
    ELSE LET c == h[v.n] IN
         [tag |-> "object", kind |-> c.kind,
          d |-> [k \in DOMAIN c.d |-> Deref(h, c.d[k])],
          l |-> [i \in DOMAIN c.l |-> Deref(h, c.l[i])]]

\* The addresses reachable from address a, a included.
RECURSIVE Reach(_, _)
Reach(h, a) ==
    LET c == h[a]
        kids == {c.d[k].n : k \in {x \in DOMAIN c.d : c.d[x].tag = "ref"}}
                \cup {c.l[i].n : i \in {x \in DOMAIN c.l : c.l[x].tag = "ref"}}
    IN {a} \cup UNION {Reach(h, k) : k \in kids}

\* ---------------------------------------------- external checkpoint library
\* SqliteSaver.from_conn_string(conn): opens a store and returns a new handle
\* object, or raises; which of the two is the environment's choice (ok).
from_conn_string(h, conn_string, ok) ==
    IF ok
    THEN LET a == Alloc(h, Obj("SqliteSaver", "conn_string" :> conn_string))
         IN Res(a.heap, a.ref, FALSE)
    ELSE Res(h, None, TRUE)

\* ------------------------------------------------------- GraphConfigBuilder
\* Variant: the config dict is made once and every builder refers to it
\* (a class-level attribute instead of one assigned in __init__).
GraphConfigBuilder_shared(h) ==
    LET old == {a \in DOMAIN h : h[a].kind = "GraphConfigBuilder"}
        inner == Alloc(h, Dict(EmptyMap))
        outer == Alloc(inner.heap, Dict("configurable" :> inner.ref))
        self == Alloc(outer.heap, Obj("GraphConfigBuilder", "config" :> outer.ref))
        again == Alloc(h, Obj("GraphConfigBuilder",
                              "config" :> h[CHOOSE a \in old : TRUE].d["config"]))
    IN IF old = {} THEN Res(self.heap, self.ref, FALSE)
       ELSE Res(again.heap, again.ref, FALSE)

\* GraphConfigBuilder(): a new object whose config is {"configurable": {}}
GraphConfigBuilder(h) ==
    LET inner == Alloc(h, Dict(EmptyMap))
        outer == Alloc(inner.heap, Dict("configurable" :> inner.ref))
        self == Alloc(outer.heap, Obj("GraphConfigBuilder", "config" :> outer.ref))
    IN Res(self.heap, self.ref, FALSE)

\* self.config
Config(h, self) == h[self].d["config"].n
\* self.config["configurable"]
Configurable(h, self) == h[Config(h, self)].d["configurable"].n

add_thread_id(h, self, thread_id) ==
    Res(SetItem(h, Configurable(h, self), "thread_id", thread_id), Ref(self), FALSE)

\* Variant: the session id is not stored.
add_user_context_partial(h, self, user_id, session_id) ==
    Res(SetItem(h, Configurable(h, self), "user_id", user_id), Ref(self), FALSE)

add_user_context(h, self, user_id, session_id) ==
    LET h1 == SetItem(h, Configurable(h, self), "user_id", user_id)
        h2 == SetItem(h1, Configurable(h1, self), "session_id", session_id)
    IN Res(h2, Ref(self), FALSE)

add_neo4j_graph(h, self, uri, user, password, database) ==
    LET g == Alloc(h, Dict([type |-> Str("neo4j"), uri |-> uri, user |-> user,
                            password |-> password, database |-> database]))
    IN Res(SetItem(g.heap, Configurable(g.heap, self), "graph_db", g.ref),
           Ref(self), FALSE)

\* Variant: the fields are merged into the graph_db dict already there.
add_sqlite_graph_merge(h, self, db_path) ==
    LET c == h[Configurable(h, self)].d
        old == IF "graph_db" \in DOMAIN c THEN h[c["graph_db"].n].d ELSE EmptyMap
        g == Alloc(h, Dict([type |-> Str("sqlite"), path |-> db_path] @@ old))
    IN Res(SetItem(g.heap, Configurable(g.heap, self), "graph_db", g.ref),
           Ref(self), FALSE)

add_sqlite_graph(h, self, db_path) ==
    LET g == Alloc(h, Dict([type |-> Str("sqlite"), path |-> db_path]))
    IN Res(SetItem(g.heap, Configurable(g.heap, self), "graph_db", g.ref),
           Ref(self), FALSE)

\* Variant: the keyword arguments are dropped.
add_memory_config_tag_only(h, self, memory_type, kwargs) ==
    LET m == Alloc(h, Dict("type" :> memory_type))
    IN Res(SetItem(m.heap, Configurable(m.heap, self), "memory", m.ref),
           Ref(self), FALSE)

\* Variant: {**kwargs, "type": memory_type}, the tag replaces a keyword named type.
add_memory_config_tag_wins(h, self, memory_type, kwargs) ==
    LET m == Alloc(h, Dict(("type" :> memory_type) @@ kwargs))
    IN Res(SetItem(m.heap, Configurable(m.heap, self), "memory", m.ref),
           Ref(self), FALSE)

\* {"type": memory_type, **kwargs}: a key of kwargs replaces an earlier equal key
add_memory_config(h, self, memory_type, kwargs) ==
    LET m == Alloc(h, Dict(kwargs @@ ("type" :> memory_type)))
    IN Res(SetItem(m.heap, Configurable(m.heap, self), "memory", m.ref),
           Ref(self), FALSE)

\* Variant: a failure of the constructor is caught and None is stored.
add_checkpointing_swallow(h, self, checkpoint_path, ok) ==
    LET s == from_conn_string(h, checkpoint_path, ok)
    IN Res(SetItem(s.heap, Configurable(s.heap, self), "checkpoint_store", s.ret),
           Ref(self), FALSE)

\* The right-hand side is evaluated before the item is stored.
add_checkpointing(h, self, checkpoint_path, ok) ==
    LET s == from_conn_string(h, checkpoint_path, ok)
    IN IF s.raised THEN s
       ELSE Res(SetItem(s.heap, Configurable(s.heap, self), "checkpoint_store", s.ret),
                Ref(self), FALSE)

\* Variant: the fields are merged into the metadata dict already there.
add_custom_metadata_update(h, self, metadata) ==
    LET c == h[Configurable(h, self)].d
        old == IF "metadata" \in DOMAIN c THEN h[c["metadata"].n].d ELSE EmptyMap
        m == Alloc(h, Dict(metadata @@ old))
    IN Res(SetItem(m.heap, Configurable(m.heap, self), "metadata", m.ref),
           Ref(self), FALSE)

\* **metadata is a dict made for this call
add_custom_metadata(h, self, metadata) ==
    LET m == Alloc(h, Dict(metadata))
    IN Res(SetItem(m.heap, Configurable(m.heap, self), "metadata", m.ref),
           Ref(self), FALSE)

\* Variant: build marks the record as built.
build_marks(h, self) ==
    Res(SetItem(h, Config(h, self), "built", Str("yes")), Ref(Config(h, self)), FALSE)

\* Variant: build returns a copy, dict(self.config).
build_copy(h, self) ==
    LET c == Alloc(h, h[Config(h, self)]) IN Res(c.heap, c.ref, FALSE)

build(h, self) == Res(h, Ref(Config(h, self)), FALSE)

\* ------------------------------------------- graph_config_example factories
\* os.getenv(name, default): the variable's value, or default when it is unset
getenv(value, default) == IF value = None THEN default ELSE value

\* When an exception leaves a factory, the builder and all it allocated are
\* unreachable: the heap the client sees is the heap before the call.
create_advanced_config(h, NEO4J_PASSWORD, ok) ==
    LET b == GraphConfigBuilder(h)
        r1 == add_thread_id(b.heap, b.ret.n, Str("conversation_1"))
        r2 == add_user_context(r1.heap, r1.ret.n, Str("user123"), Str("session456"))
        r3 == add_neo4j_graph(r2.heap, r2.ret.n, Str("bolt://localhost:7687"),
                              Str("neo4j"), getenv(NEO4J_PASSWORD, Str("password")),
                              Str("langgraph"))
        r4 == add_memory_config(r3.heap, r3.ret.n, Str("neo4j"),
                                [collection |-> Str("conversations"),
                                 max_tokens |-> Num(4000)])
        r5 == add_checkpointing(r4.heap, r4.ret.n, Str("sqlite:///checkpoints.db"), ok)
        features == Alloc(r5.heap, List(<<Str("graph_db"), Str("memory"),
                                          Str("checkpointing")>>))
        r6 == add_custom_metadata(features.heap, r5.ret.n,
                                  [environment |-> Str("production"),
                                   version |-> Str("1.0.0"),
                                   features |-> features.ref])
    IN IF r5.raised THEN Res(h, None, TRUE) ELSE build(r6.heap, r6.ret.n)

create_sqlite_config(h) ==
    LET b == GraphConfigBuilder(h)
        r1 == add_thread_id(b.heap, b.ret.n, Str("thread_2"))
        r2 == add_sqlite_graph(r1.heap, r1.ret.n, Str("./knowledge_graph.db"))
        r3 == add_memory_config(r2.heap, r2.ret.n, Str("sqlite"),
                                [table |-> Str("conversation_memory")])
        nodes == Alloc(r3.heap, List(<<Str("concepts"), Str("entities"),
                                       Str("relationships")>>))
        edges == Alloc(nodes.heap, List(<<Str("relates_to"), Str("part_of"),
                                          Str("similar_to")>>))
        schema == Alloc(edges.heap, Dict([nodes |-> nodes.ref, edges |-> edges.ref]))
        r4 == add_custom_metadata(schema.heap, r3.ret.n, [graph_schema |-> schema.ref])
    IN build(r4.heap, r4.ret.n)

\* ------------------------------------------------- enhanced_agent_example
\* The dict display is evaluated in source order; an exception of the
\* checkpoint constructor leaves the dicts built before it unreachable.
create_enhanced_config(h, thread_id, ok) ==
    LET nodes == Alloc(h, List(<<Str("concepts"), Str("entities"),
                                 Str("relationships")>>))
        edges == Alloc(nodes.heap, List(<<Str("relates_to"), Str("part_of"),
                                          Str("similar_to")>>))
        schema == Alloc(edges.heap, Dict([nodes |-> nodes.ref, edges |-> edges.ref]))
        graph_db == Alloc(schema.heap, Dict([type |-> Str("sqlite"),
                                             path |-> Str("./knowledge_graph.db"),
                                             schema |-> schema.ref]))
        memory == Alloc(graph_db.heap, Dict([type |-> Str("sqlite"),
                                             table |-> Str("conversation_memory"),
                                             max_tokens |-> Num(4000),
                                             retention_days |-> Num(30)]))
        store == from_conn_string(memory.heap, Str("sqlite:///checkpoints.db"), ok)
        features == Alloc(store.heap, List(<<Str("graph_db"), Str("memory"),
                                             Str("checkpointing")>>))
        queries == Alloc(features.heap, Dict(
            [find_related |-> Str("MATCH (n)-[r]->(m) WHERE n.id = $node_id RETURN m, r"),
             get_entities |-> Str("MATCH (n:entity) RETURN n LIMIT 10")]))
        metadata == Alloc(queries.heap, Dict([environment |-> Str("development"),
                                              version |-> Str("1.0.0"),
                                              features |-> features.ref,
                                              graph_queries |-> queries.ref]))
        inner == Alloc(metadata.heap, Dict([thread_id |-> thread_id,
                                            user_id |-> Str("user123"),
                                            session_id |-> Str("session456"),
                                            graph_db |-> graph_db.ref,
                                            memory |-> memory.ref,
                                            checkpoint_store |-> store.ret,
                                            metadata |-> metadata.ref]))
        outer == Alloc(inner.heap, Dict("configurable" :> inner.ref))
    IN IF store.raised THEN Res(h, None, TRUE) ELSE Res(outer.heap, outer.ref, FALSE)

integrate_with_graph_db(h, ok) ==
    LET config == create_enhanced_config(h, Str("graph_conversation"), ok)
        graph_operations == Alloc(config.heap, Dict(
            [store_entity |-> Fn("store_entity"),
             find_relationships |-> Fn("find_relationships"),
             query_graph |-> Fn("query_graph")]))
        inner == graph_operations.heap[config.ret.n].d["configurable"].n
    IN IF config.raised THEN config
       ELSE Res(SetItem(graph_operations.heap, inner, "graph_operations",
                        graph_operations.ref),
                config.ret, FALSE)

\* ------------------------------------------------------------ call inputs
Programs == {"graph_config_example", "enhanced_agent_example"}

ThreadIds == {Str("thread_2"), Str("conversation_1")}
UserContexts == {[user_id |-> Str("user123"), session_id |-> Str("session456")],
                 [user_id |-> Str("user7"), session_id |-> Str("session8")]}
\* the second call omits database
Neo4jArgs == {[uri |-> Str("bolt://localhost:7687"), user |-> Str("neo4j"),
               password |-> Str("password"), database |-> Str("langgraph")],
              [uri |-> Str("bolt://db:7687"), user |-> Str("admin"),
               password |-> Str("s3cret")]}
SqlitePaths == {Str("./knowledge_graph.db"), Str("./other.db")}
MemoryTypes == {Str("sqlite"), Str("neo4j")}
MemoryKwargs == {EmptyMap,
                 [table |-> Str("conversation_memory")],
                 [type |-> Str("redis"), max_tokens |-> Num(4000)]}
CheckpointPaths == {Str("sqlite:///checkpoints.db")}
MetadataKwargs == {EmptyMap,
                   [environment |-> Str("production"), version |-> Str("1.0.0")],
                   [version |-> Str("2.0.0"), owner |-> Str("ops")]}
\* create_enhanced_config called with or without its argument
EnhancedArgs == {EmptyMap, [thread_id |-> Str("conversation_1")]}
\* NEO4J_PASSWORD unset, or set
PasswordEnv == {None, Str("s3cret")}

\* Variant: an omitted argument is None, the default is not applied.
ParamNoDefault(args, name, default) ==
    IF name \in DOMAIN args THEN args[name] ELSE None

\* The value of a parameter: the argument given, or the parameter's default.
Param(args, name, default) == IF name \in DOMAIN args THEN args[name] ELSE default

\* ---------------------------------------------------------------- actions
NoCall == [op |-> "none", self |-> 0, args |-> EmptyMap, ext |-> "none",
           raised |-> FALSE, ret |-> None, snap |-> None]

Init ==
    /\ prog \in Programs
    /\ heap = <<>>
    /\ builders = {}
    /\ handed = {}
    /\ out = NoCall
    /\ prev = NoCall
    /\ lastSet = EmptyMap
    /\ calls = 0

\* The outcome of the external checkpoint constructor in a call that uses it.
Ext(ok) == IF ok THEN "ok" ELSE "failed"

\* One call by the client, with result r; ext is what the external checkpoint
\* constructor did in it ("none": the call does not use it).
Call(op, self, args, ext, r) ==
    /\ calls < MaxCalls
    /\ calls' = calls + 1
    /\ prog' = prog
    /\ heap' = r.heap
    /\ prev' = out
    /\ out' = [op |-> op, self |-> self, args |-> args, ext |-> ext,
               raised |-> r.raised, ret |-> r.ret, snap |-> Deref(r.heap, r.ret)]

\* A call that writes keys of builder self's record has returned: note the call
\* as the last writer of those keys.
Wrote(self, op, args, keys, r) ==
    lastSet' = IF r.raised THEN lastSet
               ELSE [lastSet EXCEPT ![self] =
                        [k \in keys |-> [op |-> op, args |-> args]] @@ @]

\* A call that returns a record hands it to the client.
Hands(src, self, args, r) ==
    handed' = IF r.raised THEN handed
              ELSE handed \cup {[src |-> src, self |-> self, args |-> args,
                                 addr |-> r.ret.n]}

NewBuilder ==
    /\ prog = "graph_config_example"
    /\ Cardinality(builders) < MaxBuilders
    /\ LET r == GraphConfigBuilder(heap) IN
        /\ Call("GraphConfigBuilder", 0, EmptyMap, "none", r)
        /\ builders' = builders \cup {r.ret.n}
        /\ lastSet' = (r.ret.n :> EmptyMap) @@ lastSet
        /\ UNCHANGED handed

AddThreadId ==
    \E self \in builders, t \in ThreadIds :
        LET args == [thread_id |-> t]
            r == add_thread_id(heap, self, t) IN
        /\ Call("add_thread_id", self, args, "none", r)
        /\ Wrote(self, "add_thread_id", args, {"thread_id"}, r)
        /\ UNCHANGED <<builders, handed>>

AddUserContext ==
    \E self \in builders, args \in UserContexts :
        LET r == add_user_context(heap, self, args.user_id, args.session_id) IN
        /\ Call("add_user_context", self, args, "none", r)
        /\ Wrote(self, "add_user_context", args, {"user_id", "session_id"}, r)
        /\ UNCHANGED <<builders, handed>>

AddNeo4jGraph ==
    \E self \in builders, args \in Neo4jArgs :
        LET r == add_neo4j_graph(heap, self, args.uri, args.user, args.password,
                                 Param(args, "database", Str("neo4j"))) IN
        /\ Call("add_neo4j_graph", self, args, "none", r)
        /\ Wrote(self, "add_neo4j_graph", args, {"graph_db"}, r)
        /\ UNCHANGED <<builders, handed>>

AddSqliteGraph ==
    \E self \in builders, p \in SqlitePaths :
        LET args == [db_path |-> p]
            r == add_sqlite_graph(heap, self, p) IN
        /\ Call("add_sqlite_graph", self, args, "none", r)
        /\ Wrote(self, "add_sqlite_graph", args, {"graph_db"}, r)
        /\ UNCHANGED <<builders, handed>>

\* args: the keyword arguments, and the positional memory_type under the
\* name "memory_type" (no keyword argument of the inputs has that name)
AddMemoryConfig ==
    \E self \in builders, t \in MemoryTypes, kwargs \in MemoryKwargs :
        LET args == kwargs @@ ("memory_type" :> t)
            r == add_memory_config(heap, self, t, kwargs) IN
        /\ Call("add_memory_config", self, args, "none", r)
        /\ Wrote(self, "add_memory_config", args, {"memory"}, r)
        /\ UNCHANGED <<builders, handed>>

AddCheckpointing ==
    \E self \in builders, p \in CheckpointPaths, ok \in BOOLEAN :
        LET args == [checkpoint_path |-> p]
            r == add_checkpointing(heap, self, p, ok) IN
        /\ Call("add_checkpointing", self, args, Ext(ok), r)
        /\ Wrote(self, "add_checkpointing", args, {"checkpoint_store"}, r)
        /\ UNCHANGED <<builders, handed>>

AddCustomMetadata ==
    \E self \in builders, metadata \in MetadataKwargs :
        LET r == add_custom_metadata(heap, self, metadata) IN
        /\ Call("add_custom_metadata", self, metadata, "none", r)
        /\ Wrote(self, "add_custom_metadata", metadata, {"metadata"}, r)
        /\ UNCHANGED <<builders, handed>>

Build ==
    \E self \in builders :
        LET r == build(heap, self) IN
        /\ Call("build", self, EmptyMap, "none", r)
        /\ Hands("build", self, EmptyMap, r)
        /\ UNCHANGED <<builders, lastSet>>

\* The client stores an entry in a record that build returned to it, the way
\* integrate_with_graph_db stores graph_operations in the record it was returned.
CallerWrite ==
    \E r \in handed :
        /\ r.src = "build"
        /\ LET args == [graph_operations |-> Fn("query_graph")]
               r1 == Res(SetItem(heap, heap[r.addr].d["configurable"].n,
                                 "graph_operations", args["graph_operations"]),
                         None, FALSE) IN
            /\ Call("caller_write", r.self, args, "none", r1)
            /\ Wrote(r.self, "caller_write", args, {"graph_operations"}, r1)
            /\ UNCHANGED <<builders, handed>>

CreateAdvancedConfig ==
    /\ prog = "graph_config_example"
    /\ \E env \in PasswordEnv, ok \in BOOLEAN :
        LET r == create_advanced_config(heap, env, ok) IN
        /\ Call("create_advanced_config", 0, EmptyMap, Ext(ok), r)
        /\ Hands("create_advanced_config", 0, EmptyMap, r)
        /\ UNCHANGED <<builders, lastSet>>

CreateSqliteConfig ==
    /\ prog = "graph_config_example"
    /\ LET r == create_sqlite_config(heap) IN
        /\ Call("create_sqlite_config", 0, EmptyMap, "none", r)
        /\ Hands("create_sqlite_config", 0, EmptyMap, r)
        /\ UNCHANGED <<builders, lastSet>>

CreateEnhancedConfig ==
    /\ prog = "enhanced_agent_example"
    /\ \E args \in EnhancedArgs, ok \in BOOLEAN :
        LET r == create_enhanced_config(heap, Param(args, "thread_id", Str("1")), ok) IN
        /\ Call("create_enhanced_config", 0, args, Ext(ok), r)
        /\ Hands("create_enhanced_config", 0, args, r)
        /\ UNCHANGED <<builders, lastSet>>

IntegrateWithGraphDb ==
    /\ prog = "enhanced_agent_example"
    /\ \E ok \in BOOLEAN :
        LET r == integrate_with_graph_db(heap, ok) IN
        /\ Call("integrate_with_graph_db", 0, EmptyMap, Ext(ok), r)
        /\ Hands("integrate_with_graph_db", 0, EmptyMap, r)
        /\ UNCHANGED <<builders, lastSet>>

Next ==
    \/ NewBuilder
    \/ AddThreadId
    \/ AddUserContext
    \/ AddNeo4jGraph
    \/ AddSqliteGraph
    \/ AddMemoryConfig
    \/ AddCheckpointing
    \/ AddCustomMetadata
    \/ Build
    \/ CallerWrite
    \/ CreateAdvancedConfig
    \/ CreateSqliteConfig
    \/ CreateEnhancedConfig
    \/ IntegrateWithGraphDb

Spec == Init /\ [][Next]_vars

\* ------------------------------------------------------------- properties
RecognizedKeys == {"thread_id", "user_id", "session_id", "graph_db", "memory",
                   "checkpoint_store", "metadata"}
Setters == {"add_thread_id", "add_user_context", "add_neo4j_graph",
            "add_sqlite_graph", "add_memory_config", "add_checkpointing",
            "add_custom_metadata"}

\* The dict under "configurable" of the record at address a, as a function.
Inner(h, a) == h[h[a].d["configurable"].n].d
\* The dict a reference-valued entry denotes.
Sub(h, v) == h[v.n].d
\* The records create_enhanced_config has returned to the client directly.
EnhancedRecords == {r \in handed : r.src = "create_enhanced_config"}

\* C1: every record create_enhanced_config returns has under `configurable`
\* exactly the seven recognized keys; its thread_id is the argument given, and
\* "1" when the argument is omitted; every other field has the same value
\* (compared structurally) in every record, whatever the thread id.
C1_EnhancedConfigShape ==
    \A r \in EnhancedRecords :
        LET c == Inner(heap, r.addr) IN
        /\ DOMAIN heap[r.addr].d = {"configurable"}
        /\ DOMAIN c = RecognizedKeys
        /\ c["thread_id"] = (IF "thread_id" \in DOMAIN r.args
                             THEN r.args["thread_id"] ELSE Str("1"))
        /\ c["user_id"] = Str("user123")
        /\ c["session_id"] = Str("session456")
        /\ Deref(heap, c["checkpoint_store"]).d["conn_string"]
               = Str("sqlite:///checkpoints.db")
        /\ \A q \in EnhancedRecords : \A k \in RecognizedKeys \ {"thread_id"} :
               Deref(heap, c[k]) = Deref(heap, Inner(heap, q.addr)[k])

\* Two records exist, one made without the argument and one with it.
C1_Witness ==
    /\ out.op = "create_enhanced_config"
    /\ \E r, q \in EnhancedRecords :
           /\ r.args = EmptyMap
           /\ "thread_id" \in DOMAIN q.args
           /\ Inner(heap, r.addr)["thread_id"] # Inner(heap, q.addr)["thread_id"]

\* The graph_db variant record a graph setter call writes, from its arguments.
GraphVariant(e) ==
    IF e.op = "add_sqlite_graph"
    THEN [type |-> Str("sqlite"), path |-> e.args["db_path"]]
    ELSE [type |-> Str("neo4j"), uri |-> e.args["uri"], user |-> e.args["user"],
          password |-> e.args["password"],
          database |-> IF "database" \in DOMAIN e.args
                       THEN e.args["database"] ELSE Str("neo4j")]

\* C2: last write wins for graph_db: at any time after a builder's last
\* add_neo4j_graph / add_sqlite_graph call, the record's graph_db is exactly the
\* variant record of that call, with no field of an earlier variant left.
C2_GraphDbLastWriteWins ==
    \A b \in builders :
        "graph_db" \in DOMAIN lastSet[b] =>
            Sub(heap, Inner(heap, Config(heap, b))["graph_db"])
                = GraphVariant(lastSet[b]["graph_db"])

\* add_sqlite_graph has just been called after add_neo4j_graph on the same builder.
C2_Witness ==
    /\ out.op = "add_sqlite_graph"
    /\ prev.op = "add_neo4j_graph"
    /\ out.self = prev.self
    /\ DOMAIN Sub(heap, Inner(heap, Config(heap, out.self))["graph_db"])
           = {"type", "path"}

\* C3: add_custom_metadata does not merge: the record's metadata is exactly the
\* fields of the builder's last add_custom_metadata call.
C3_MetadataNoMerge ==
    \A b \in builders :
        "metadata" \in DOMAIN lastSet[b] =>
            Sub(heap, Inner(heap, Config(heap, b))["metadata"])
                = lastSet[b]["metadata"].args

\* Two calls in a row on one builder, the first with a field the second lacks.
C3_Witness ==
    /\ out.op = "add_custom_metadata"
    /\ prev.op = "add_custom_metadata"
    /\ out.self = prev.self
    /\ \E k \in DOMAIN prev.args : k \notin DOMAIN out.args
    /\ \A k \in DOMAIN prev.args \ DOMAIN out.args :
           k \notin DOMAIN Sub(heap, Inner(heap, Config(heap, out.self))["metadata"])

\* C4: build is read-only and repeatable: a build call changes no object, never
\* raises, returns the builder's record, and directly after another build call
\* on the same builder returns a structurally equal record.
C4_BuildReadOnly ==
    [][(out'.op = "build" /\ calls' = calls + 1) =>
          /\ heap' = heap
          /\ builders' = builders
          /\ ~out'.raised
          /\ out'.ret = Ref(Config(heap, out'.self))
          /\ out'.snap = Deref(heap, Ref(Config(heap, out'.self)))
          /\ (out.op = "build" /\ out.self = out'.self) => out'.snap = out.snap
       ]_vars

\* build twice in a row on a newly constructed builder: `configurable` is empty.
C4_Witness ==
    /\ out.op = "build"
    /\ prev.op = "build"
    /\ out.self = prev.self
    /\ DOMAIN Inner(heap, out.ret.n) = {}

\* The three calls of the example scenario are the last writers of their keys.
ScenarioCalls(b) ==
    /\ {"thread_id", "graph_db", "memory"} \subseteq DOMAIN lastSet[b]
    /\ lastSet[b]["thread_id"].args = [thread_id |-> Str("thread_2")]
    /\ lastSet[b]["graph_db"].op = "add_sqlite_graph"
    /\ lastSet[b]["graph_db"].args = [db_path |-> Str("./knowledge_graph.db")]
    /\ lastSet[b]["memory"].args = [memory_type |-> Str("sqlite"),
                                    table |-> Str("conversation_memory")]

\* The record at address a is the one the example scenario asks for.
ScenarioRecord(a) ==
    LET c == Inner(heap, a) IN
    /\ c["thread_id"] = Str("thread_2")
    /\ Sub(heap, c["graph_db"])
           = [type |-> Str("sqlite"), path |-> Str("./knowledge_graph.db")]
    /\ Sub(heap, c["memory"])
           = [type |-> Str("sqlite"), table |-> Str("conversation_memory")]

\* C5: a builder given add_thread_id("thread_2"),
\* add_sqlite_graph("./knowledge_graph.db") and add_memory_config("sqlite",
\* table="conversation_memory") yields on build a record with that thread_id,
\* graph_db = {type: sqlite, path} and memory = {type: sqlite, table}, no other
\* field in either; every record create_sqlite_config returns is such a record.
C5_SqliteScenario ==
    /\ \A b \in builders : ScenarioCalls(b) => ScenarioRecord(build(heap, b).ret.n)
    /\ \A r \in handed : r.src = "create_sqlite_config" => ScenarioRecord(r.addr)

\* create_sqlite_config has returned a record.
C5_Witness ==
    /\ out.op = "create_sqlite_config"
    /\ ~out.raised
    /\ \E r \in handed : r.src = "create_sqlite_config" /\ r.addr = out.ret.n

\* A client's builder has received the three calls of the scenario.
C5_BuilderWitness == \E b \in builders : ScenarioCalls(b)

\* The keyword arguments of an add_memory_config call (its args without the
\* positional memory_type).
MemoryExtras(args) == [k \in DOMAIN args \ {"memory_type"} |-> args[k]]

\* C6 as stated: after add_memory_config(memory_type, extra fields) the memory
\* record has type equal to memory_type, every extra field with its given
\* value, and nothing else.
C6_Original ==
    \A b \in builders :
        "memory" \in DOMAIN lastSet[b] =>
            LET a == lastSet[b]["memory"].args
                m == Sub(heap, Inner(heap, Config(heap, b))["memory"]) IN
            /\ DOMAIN m = {"type"} \cup DOMAIN MemoryExtras(a)
            /\ m["type"] = a["memory_type"]
            /\ \A k \in DOMAIN MemoryExtras(a) : m[k] = a[k]

\* C6 amended: after add_memory_config(memory_type, extra fields) the memory
\* record holds exactly `type` and the extra fields, every extra field with its
\* given value (an extra field named type included), and type equal to
\* memory_type when no extra field is named type; nothing of an earlier memory
\* configuration is left.
C6_MemoryMerge ==
    \A b \in builders :
        "memory" \in DOMAIN lastSet[b] =>
            LET a == lastSet[b]["memory"].args
                m == Sub(heap, Inner(heap, Config(heap, b))["memory"]) IN
            /\ DOMAIN m = {"type"} \cup DOMAIN MemoryExtras(a)
            /\ \A k \in DOMAIN MemoryExtras(a) : m[k] = a[k]
            /\ "type" \notin DOMAIN MemoryExtras(a) => m["type"] = a["memory_type"]

\* A second add_memory_config on a builder, with an extra field named type that
\* differs from memory_type, after a call whose extra field it does not repeat.
C6_Witness ==
    /\ out.op = "add_memory_config"
    /\ prev.op = "add_memory_config"
    /\ out.self = prev.self
    /\ "type" \in DOMAIN MemoryExtras(out.args)
    /\ out.args["type"] # out.args["memory_type"]
    /\ "table" \in DOMAIN prev.args
    /\ "table" \notin DOMAIN Sub(heap, Inner(heap, Config(heap, out.self))["memory"])

\* The records the client holds: those handed to it and those of its builders.
Roots == {r.addr : r \in handed} \cup {Config(heap, b) : b \in builders}

\* No two records share an object, at any depth.
NoSharing ==
    \A a1, a2 \in Roots : a1 # a2 => Reach(heap, a1) \cap Reach(heap, a2) = {}

\* graph_operations is in the record integrate_with_graph_db returns and in no
\* record create_enhanced_config returned to the client.
GraphOperationsLocal ==
    /\ \A r \in EnhancedRecords : "graph_operations" \notin DOMAIN Inner(heap, r.addr)
    /\ \A r \in handed : r.src = "integrate_with_graph_db" =>
           "graph_operations" \in DOMAIN Inner(heap, r.addr)

\* A call leaves every record unchanged except the record of the builder it is
\* called on (for a write by the caller: the builder whose record is written).
OthersUnchanged ==
    /\ \A r \in handed :
           (out'.self = 0 \/ r.addr # Config(heap, out'.self)) =>
               Deref(heap', Ref(r.addr)) = Deref(heap, Ref(r.addr))
    /\ \A b \in builders :
           b # out'.self => Deref(heap', Ref(b)) = Deref(heap, Ref(b))

\* C7: records are made anew per invocation: two calls of create_enhanced_config,
\* and two builders, share no record or sub-record, a change to one record
\* leaves every other record as it was, and the graph_operations entry
\* integrate_with_graph_db adds is in no other record.
C7_FreshRecords ==
    /\ [](NoSharing /\ GraphOperationsLocal)
    /\ [][OthersUnchanged]_vars

\* create_enhanced_config has returned records before and after a call of
\* integrate_with_graph_db.
C7_Witness ==
    /\ out.op = "create_enhanced_config"
    /\ ~out.raised
    /\ prev.op = "integrate_with_graph_db"
    /\ ~prev.raised
    /\ Cardinality(EnhancedRecords) = 2

\* Two builders of the client, each with a sub-record of its own.
C7_BuilderWitness ==
    \E b1, b2 \in builders :
        /\ b1 # b2
        /\ "metadata" \in DOMAIN Inner(heap, Config(heap, b1))
        /\ "metadata" \in DOMAIN Inner(heap, Config(heap, b2))

\* Every build call so far returned the builder's own record, every setter
\* returns the builder it was called on, the record an earlier build call
\* handed out is the one the builder still accumulates into, and what the
\* client stored in a returned record is in the record a later build returns.
OneRecord ==
    /\ \A r \in handed : r.src = "build" => r.addr = Config(heap, r.self)
    /\ (out.op \in Setters /\ ~out.raised) => out.ret = Ref(out.self)
    /\ (prev.op = "build" /\ out.op \in Setters /\ out.self = prev.self) =>
           Deref(heap, prev.ret) = Deref(heap, Ref(Config(heap, out.self)))
    /\ (out.op = "build" /\ "graph_operations" \in DOMAIN lastSet[out.self]) =>
           /\ "graph_operations" \in DOMAIN Inner(heap, out.ret.n)
           /\ Inner(heap, out.ret.n)["graph_operations"]
                  = lastSet[out.self]["graph_operations"].args["graph_operations"]

\* No call gives a builder another record.
ConfigKept == \A b \in builders : Config(heap', b) = Config(heap, b)

\* C8: a builder owns one mutable record for its lifetime and build does not
\* freeze it: setters return the same builder, every build call returns that
\* one record and no copy, so a setter called after build changes the record
\* the earlier build call handed out, and a caller's change to a returned
\* record changes what later build calls return.
C8_OneMutableRecord ==
    /\ []OneRecord
    /\ [][ConfigKept]_vars

\* A setter after build on the same builder: the record build handed out is no
\* longer what it was when build returned it.
C8_Witness ==
    /\ prev.op = "build"
    /\ out.op \in Setters
    /\ out.self = prev.self
    /\ ~out.raised
    /\ Deref(heap, prev.ret) # prev.snap

\* build, a write by the caller into the returned record, and build again.
C8_CallerWitness ==
    /\ out.op = "build"
    /\ prev.op = "caller_write"
    /\ out.self = prev.self
    /\ "graph_operations" \in DOMAIN Inner(heap, out.ret.n)

\* The SqliteSaver handles constructed so far.
Handles(h) == {a \in DOMAIN h : h[a].kind = "SqliteSaver"}

\* The handle a successful call constructed is new, the only new one, and is
\* what the record at address a holds under checkpoint_store.
OneHandleStored(a) ==
    LET v == Inner(heap', a)["checkpoint_store"] IN
    /\ Cardinality(Handles(heap')) = Cardinality(Handles(heap)) + 1
    /\ v.tag = "ref"
    /\ v.n \in Handles(heap') \ Handles(heap)

\* C9: a failure of the external checkpoint constructor is propagated with no
\* recovery or retry.  In add_checkpointing the call then raises, returns no
\* builder and leaves every object as it was; in create_enhanced_config no
\* record is returned.  When the constructor succeeds the call does not raise,
\* exactly one handle is constructed and it is stored under checkpoint_store.
C9_CheckpointFailure ==
    [][/\ (out'.op \in {"add_checkpointing", "create_enhanced_config"}
            /\ calls' = calls + 1) =>
              /\ out'.raised <=> out'.ext = "failed"
              /\ out'.raised =>
                    /\ out'.ret = None
                    /\ heap' = heap
                    /\ handed' = handed
                    /\ lastSet' = lastSet
              /\ (~out'.raised /\ out'.op = "add_checkpointing") =>
                    /\ out'.ret = Ref(out'.self)
                    /\ OneHandleStored(Config(heap, out'.self))
              /\ (~out'.raised /\ out'.op = "create_enhanced_config") =>
                    OneHandleStored(out'.ret.n)
      ]_vars

\* add_checkpointing has failed on a builder that already holds a handle.
C9_Witness ==
    /\ out.op = "add_checkpointing"
    /\ out.raised
    /\ out.ext = "failed"
    /\ prev.op = "add_checkpointing"
    /\ ~prev.raised
    /\ out.self = prev.self
    /\ "checkpoint_store" \in DOMAIN Inner(heap, Config(heap, out.self))

\* The keys each setter is to write.
KeysOf(op) ==
    CASE op = "add_thread_id" -> {"thread_id"}
      [] op = "add_user_context" -> {"user_id", "session_id"}
      [] op \in {"add_neo4j_graph", "add_sqlite_graph"} -> {"graph_db"}
      [] op = "add_memory_config" -> {"memory"}
      [] op = "add_checkpointing" -> {"checkpoint_store"}
      [] op = "add_custom_metadata" -> {"metadata"}
      [] OTHER -> {}

\* The keys present are those of the setters that have returned, in every
\* record only setters have written to.
KeysAreUnion ==
    \A b \in {x \in builders : "graph_operations" \notin DOMAIN lastSet[x]} :
        LET c == Inner(heap, Config(heap, b)) IN
        /\ DOMAIN heap[Config(heap, b)].d = {"configurable"}
        /\ DOMAIN c = UNION {KeysOf(lastSet[b][k].op) : k \in DOMAIN lastSet[b]}
        /\ DOMAIN c \subseteq RecognizedKeys
        /\ "user_id" \in DOMAIN c <=> "session_id" \in DOMAIN c

\* A setter call changes no key but its own, in no builder's record.
SetterFrame ==
    (out'.op \in Setters /\ calls' = calls + 1) =>
        \A b \in builders :
            LET c == Inner(heap, Config(heap, b))
                d == Inner(heap', Config(heap', b))
                own == IF b = out'.self THEN KeysOf(out'.op) ELSE {} IN
            /\ heap'[Config(heap', b)].d = heap[Config(heap, b)].d
            /\ \A k \in (DOMAIN c \cup DOMAIN d) \ own :
                   /\ k \in DOMAIN c
                   /\ k \in DOMAIN d
                   /\ d[k] = c[k]
                   /\ Deref(heap', d[k]) = Deref(heap, c[k])

\* C10: each setter writes only its own key(s) under `configurable` and leaves
\* every other key and the top-level shape unchanged, so the keys present in a
\* builder's record are exactly the union of the keys of the setters called on
\* it, all among the seven recognized keys, with user_id present if and only if
\* session_id is.
C10_SetterFrame ==
    /\ []KeysAreUnion
    /\ [][SetterFrame]_vars

\* A builder that has received add_user_context and two other setters.
C10_Witness ==
    \E b \in builders :
        /\ out.self = b
        /\ out.op \in Setters
        /\ {"user_id", "session_id"} \subseteq DOMAIN Inner(heap, Config(heap, b))
        /\ Cardinality(DOMAIN Inner(heap, Config(heap, b))) = 4

====
